---- MODULE Spec2Model ----
(***************************************************************************)
(* A model of the Dispatcher of src/dispatcher.py: the fare board (a       *)
(* three-level insertion-ordered dictionary origin -> destination ->       *)
(* call time -> FareEntry), the taxi roster, the revenue ledger, and the   *)
(* runtime methods newFare, cancelFare, fareBid, recvPayment, handover and *)
(* clockTick.  The world (parent) and the taxis are collaborators: their   *)
(* answers are inputs, the calls made to the world are recorded.           *)
(*                                                                         *)
(* Python dictionaries iterate in insertion order, so a dictionary is a    *)
(* sequence of <<key, value>> pairs.  Prices and utilities are Python      *)
(* floats; here they are exact fractions <<numerator, denominator>> with a *)
(* positive denominator.  Taxi indices are 0-based as in the code, -1 is   *)
(* the "no taxi" sentinel.                                                 *)
(***************************************************************************)
EXTENDS Integers, Sequences, FiniteSets, TLC

\* ---------------------------------------------------------------- bounds
\* taxis that exist
NumTaxis == 2
\* fares on the board at one time
MaxFares == 2
\* bids recorded on the board at one time
MaxBids == 2
\* the revenue beyond which no further payment is modelled
MaxRevenue == 1
\* the servicing count beyond which no further tick is modelled
MaxServicing == 2

\* ------------------------------------------------------- the environment
OwnWorld == "world"
OtherWorld == "otherWorld"
Worlds == {OwnWorld, OtherWorld}
\* a taxi that bids without being on the roster
RogueTaxi == "rogueTaxi"

NodeA == <<0, 0>>
NodeB == <<1, 0>>
NodeC == <<1, 1>>
Nodes == {NodeA, NodeB, NodeC}
\* the (origin, destination, call time) triplets fares are requested with
FareKeys == {<<NodeA, NodeB, 1>>, <<NodeA, NodeB, 2>>, <<NodeA, NodeC, 1>>, <<NodeB, NodeB, 1>>}
\* the fares a previous dispatcher hands over
HandoverKeys == {<<NodeA, NodeB, 1>>}
\* the origins taxis bid on
BidOrigins == {NodeA, NodeB}
\* the fares named in calls from another world
ForeignKeys == {<<NodeA, NodeB, 1>>}
TaxiIds == 1..NumTaxis
\* what a taxi object shows when the dispatcher looks at it
TaxiStates ==
    { [onDuty |-> TRUE, pathLen |-> 0, currentLocation |-> NodeA],
      [onDuty |-> TRUE, pathLen |-> 0, currentLocation |-> NodeB],
      [onDuty |-> TRUE, pathLen |-> 1, currentLocation |-> NodeA],
      [onDuty |-> FALSE, pathLen |-> 0, currentLocation |-> NodeA] }
Amounts == {1}
HandoverPrices == {<<150, 1>>}

\* world.getNode: every coordinate of Nodes is a node of the world
None == "None"
getNode(c) == IF c \in Nodes THEN c ELSE None

\* world.travelTime between two nodes: A -> C is gridlocked
travelTime(a, b) ==
    IF a = None \/ b = None THEN -1
    ELSE IF a = NodeA /\ b = NodeC THEN -1
    ELSE IF a = b THEN 0
    ELSE 4

\* the travel time taxi._planPath leaves in args['travelTime'][0]: the streets
\* are one-way, no path leads from B back to A
planPathTime(from, to) ==
    IF from = to THEN 0
    ELSE IF from = NodeB /\ to = NodeA THEN -1
    ELSE IF from = NodeA /\ to = NodeC THEN 2
    ELSE 1

\* ------------------------------------------------------------- fractions
Zero == <<0, 1>>
RatLess(a, b) == a[1] * b[2] < b[1] * a[2]
RatEq(a, b) == a[1] * b[2] = b[1] * a[2]
RatNeg(a) == <<-a[1], a[2]>>
\* a / n of Python raises ZeroDivisionError for n = 0: the exception is the
\* pair <<0, 0>>, which is no fraction
ZeroDivisionError == <<0, 0>>
RatDiv(a, n) == IF n = 0 THEN ZeroDivisionError ELSE <<a[1], a[2] * n>>

\* ------------------------------------------- insertion-ordered dictionary
DictHas(d, k) == \E i \in 1..Len(d) : d[i][1] = k
DictIdx(d, k) == CHOOSE i \in 1..Len(d) : d[i][1] = k
DictGet(d, k) == d[DictIdx(d, k)][2]
DictKeys(d) == [i \in 1..Len(d) |-> d[i][1]]
DictPut(d, k, v) ==
    IF DictHas(d, k) THEN [d EXCEPT ![DictIdx(d, k)] = <<k, v>>]
    ELSE Append(d, <<k, v>>)
DictDel(d, k) ==
    LET i == DictIdx(d, k)
    IN  SubSeq(d, 1, i - 1) \o SubSeq(d, i + 1, Len(d))

\* list.index(x) and `x in list` of Python, 0-based
ListHas(l, x) == \E i \in 1..Len(l) : l[i] = x
ListIndex(l, x) == (CHOOSE i \in 1..Len(l) : l[i] = x /\ \A j \in 1..(i - 1) : l[j] # x) - 1
\* l[i] of Python for i >= -Len(l): a negative index counts from the end
ListAt(l, i) == IF i < 0 THEN l[Len(l) + i + 1] ELSE l[i + 1]

\* ------------------------------------------------------------- FareEntry
FareEntry(origin, dest, time) ==
    [origin |-> origin, destination |-> dest, calltime |-> time,
     price |-> Zero, taxi |-> -1, bidders |-> <<>>]

\* ------------------------------------------------------------------ state
VARIABLES
    _taxis,               \* the roster: a list of taxi handles
    _fareBoard,           \* origin -> destination -> calltime -> FareEntry
    _revenue,
    _taxisServicingFares,
    broadcasts,           \* world.broadcastFare calls of the last operation
    allocations,          \* world.allocateFare calls of the last operation
    cancellations,        \* world.cancelFare calls of the last operation
    drain,                \* what the last clockTick saw and the locals it ended with
    raised,               \* the last operation ended in an exception
    caller                \* who made the last call: a world, or a taxi off the roster

vars == <<_taxis, _fareBoard, _revenue, _taxisServicingFares,
          broadcasts, allocations, cancellations, drain, raised, caller>>

NoDrain == [ran |-> FALSE, available |-> <<>>, taxiCount |-> 0, fareCount |-> 0,
            eligible |-> <<>>, candidates |-> <<>>, planned |-> <<>>,
            committed |-> <<>>, allocatedTaxis |-> <<>>, allocatedFares |-> <<>>,
            left |-> <<>>]

\* the fares on the board, in the order the nested loops of fareBid visit them
BoardKeys(board) ==
    LET RECURSIVE times(_, _, _, _)
        times(o, d, ts, i) ==
            IF i > Len(ts) THEN <<>>
            ELSE <<<<o, d, ts[i][1]>>>> \o times(o, d, ts, i + 1)
        RECURSIVE dests(_, _, _)
        dests(o, ds, i) ==
            IF i > Len(ds) THEN <<>>
            ELSE times(o, ds[i][1], ds[i][2], 1) \o dests(o, ds, i + 1)
        RECURSIVE origins(_)
        origins(i) ==
            IF i > Len(board) THEN <<>>
            ELSE dests(board[i][1], board[i][2], 1) \o origins(i + 1)
    IN  origins(1)

HasFare(board, o, d, t) ==
    /\ DictHas(board, o)
    /\ DictHas(DictGet(board, o), d)
    /\ DictHas(DictGet(DictGet(board, o), d), t)
GetFare(board, o, d, t) == DictGet(DictGet(DictGet(board, o), d), t)
SetFare(board, o, d, t, f) ==
    DictPut(board, o, DictPut(DictGet(board, o), d,
                              DictPut(DictGet(DictGet(board, o), d), t, f)))
SeqSet(l) == {l[i] : i \in 1..Len(l)}
FareKeySet(board) == SeqSet(BoardKeys(board))
NumFares(board) == Len(BoardKeys(board))
RECURSIVE SumBids(_, _, _)
SumBids(board, keys, i) ==
    IF i > Len(keys) THEN 0
    ELSE Len(GetFare(board, keys[i][1], keys[i][2], keys[i][3]).bidders)
         + SumBids(board, keys, i + 1)
NumBids(board) == SumBids(board, BoardKeys(board), 1)

Quiet ==
    /\ broadcasts' = <<>>
    /\ allocations' = <<>>
    /\ cancellations' = <<>>
    /\ drain' = NoDrain
    /\ raised' = FALSE

\* Dispatcher(parent): no taxis, an empty fare board, no revenue
Init ==
    /\ _taxis = <<>>
    /\ _fareBoard = <<>>
    /\ _revenue = 0
    /\ _taxisServicingFares = 0
    /\ broadcasts = <<>>
    /\ allocations = <<>>
    /\ cancellations = <<>>
    /\ drain = NoDrain
    /\ raised = FALSE
    /\ caller = OwnWorld

\* --------------------------------------------------------------- addTaxi
addTaxiList(taxis, t) == IF ~ListHas(taxis, t) THEN Append(taxis, t) ELSE taxis

addTaxi(t) ==
    /\ _taxis' = addTaxiList(_taxis, t)
    /\ Quiet
    /\ UNCHANGED <<_fareBoard, _revenue, _taxisServicingFares>>

\* --------------------------------------------------------------- newFare
\* newFareBoard keeping an entry that is already at the key
newFareBoard_KeepsExisting(board, origin, destination, time) ==
    IF HasFare(board, origin, destination, time) THEN board
    ELSE LET fare == FareEntry(origin, destination, time)
             b1 == IF DictHas(board, origin)
                   THEN IF ~DictHas(DictGet(board, origin), destination)
                        THEN DictPut(board, origin,
                                     DictPut(DictGet(board, origin), destination, <<>>))
                        ELSE board
                   ELSE DictPut(board, origin, <<<<destination, <<>>>>>>)
         IN  SetFare(b1, origin, destination, time, fare)

newFareBoard(board, origin, destination, time) ==
    LET fare == FareEntry(origin, destination, time)
        b1 == IF DictHas(board, origin)
              THEN IF ~DictHas(DictGet(board, origin), destination)
                   THEN DictPut(board, origin,
                                DictPut(DictGet(board, origin), destination, <<>>))
                   ELSE board
              ELSE DictPut(board, origin, <<<<destination, <<>>>>>>)
    IN  SetFare(b1, origin, destination, time, fare)

\* newFare without the test of the caller's world
newFare_AnyWorld(parent, origin, destination, time) ==
    /\ \E b \in {newFareBoard(_fareBoard, origin, destination, time)} :
          /\ NumFares(b) <= MaxFares
          /\ _fareBoard' = b
    /\ Quiet
    /\ UNCHANGED <<_taxis, _revenue, _taxisServicingFares>>

newFare(parent, origin, destination, time) ==
    /\ \E b \in {IF parent = OwnWorld
                  THEN newFareBoard(_fareBoard, origin, destination, time)
                  ELSE _fareBoard} :
          /\ _fareBoard' = b
          /\ NumFares(b) <= MaxFares
    /\ Quiet
    /\ UNCHANGED <<_taxis, _revenue, _taxisServicingFares>>

\* -------------------------------------------------------------- handover
handover(parent, origin, destination, time, t, price) ==
    /\ IF parent = OwnWorld
       THEN \E taxis1 \in {addTaxiList(_taxis, t)},
               b1 \in {newFareBoard(_fareBoard, origin, destination, time)} :
                /\ NumFares(b1) <= MaxFares
                /\ _taxis' = taxis1
                /\ _fareBoard' = SetFare(b1, origin, destination, time,
                                    [GetFare(b1, origin, destination, time)
                                        EXCEPT !.taxi = ListIndex(taxis1, t),
                                               !.price = price])
       ELSE UNCHANGED <<_taxis, _fareBoard>>
    /\ Quiet
    /\ UNCHANGED <<_revenue, _taxisServicingFares>>

\* ------------------------------------------------------------ cancelFare
\* cancelFareBoard deleting the destination with all its call times
cancelFareBoard_DropsDestination(board, origin, destination, calltime) ==
    LET dests == DictGet(board, origin)
        times == DictGet(dests, destination)
        dests1 == IF DictHas(times, calltime) THEN DictDel(dests, destination)
                  ELSE dests
    IN  IF Len(dests1) = 0 THEN DictDel(board, origin)
        ELSE DictPut(board, origin, dests1)

\* cancelFareBoard pruning a destination that still has one call time
cancelFareBoard_PrunesAtOne(board, origin, destination, calltime) ==
    LET dests == DictGet(board, origin)
        times == DictGet(dests, destination)
        times1 == IF DictHas(times, calltime) THEN DictDel(times, calltime) ELSE times
        dests1 == IF Len(times1) <= 1 THEN DictDel(dests, destination)
                  ELSE DictPut(dests, destination, times1)
    IN  IF Len(dests1) = 0 THEN DictDel(board, origin)
        ELSE DictPut(board, origin, dests1)

\* cancelFareBoard without the pruning of empty levels
cancelFareBoard_NoPrune(board, origin, destination, calltime) ==
    LET dests == DictGet(board, origin)
        times == DictGet(dests, destination)
        times1 == IF DictHas(times, calltime) THEN DictDel(times, calltime) ELSE times
    IN  DictPut(board, origin, DictPut(dests, destination, times1))

\* the board after `del` of the entry and of the levels it leaves empty
cancelFareBoard(board, origin, destination, calltime) ==
    LET dests == DictGet(board, origin)
        times == DictGet(dests, destination)
        times1 == IF DictHas(times, calltime) THEN DictDel(times, calltime) ELSE times
        dests1 == IF Len(times1) = 0 THEN DictDel(dests, destination)
                  ELSE DictPut(dests, destination, times1)
    IN  IF Len(dests1) = 0 THEN DictDel(board, origin)
        ELSE DictPut(board, origin, dests1)

cancelFare(parent, origin, destination, calltime) ==
    IF parent = OwnWorld /\ DictHas(_fareBoard, origin)
       /\ DictHas(DictGet(_fareBoard, origin), destination)
    THEN IF HasFare(_fareBoard, origin, destination, calltime)
         THEN LET idx == GetFare(_fareBoard, origin, destination, calltime).taxi
              IN  IF idx >= Len(_taxis) \/ idx < -Len(_taxis)
                  THEN \* self._taxis[idx] raises IndexError before anything changed
                       /\ raised' = TRUE
                       /\ broadcasts' = <<>>
                       /\ allocations' = <<>>
                       /\ cancellations' = <<>>
                       /\ drain' = NoDrain
                       /\ UNCHANGED <<_taxis, _fareBoard, _revenue, _taxisServicingFares>>
                  ELSE /\ cancellations' = <<<<origin, ListAt(_taxis, idx)>>>>
                       /\ _fareBoard' = cancelFareBoard(_fareBoard, origin, destination, calltime)
                       /\ broadcasts' = <<>>
                       /\ allocations' = <<>>
                       /\ drain' = NoDrain
                       /\ raised' = FALSE
                       /\ UNCHANGED <<_taxis, _revenue, _taxisServicingFares>>
         ELSE /\ _fareBoard' = cancelFareBoard(_fareBoard, origin, destination, calltime)
              /\ Quiet
              /\ UNCHANGED <<_taxis, _revenue, _taxisServicingFares>>
    ELSE /\ Quiet
         /\ UNCHANGED <<_taxis, _fareBoard, _revenue, _taxisServicingFares>>

\* --------------------------------------------------------------- fareBid
\* OpenKeys without the test of the fare's taxi
OpenKeys_AnyFare(board, origin) ==
    SelectSeq(BoardKeys(board), LAMBDA k : k[1] = origin)

\* the keys under origin whose fare has no taxi, in the order of the loops
OpenKeys(board, origin) ==
    SelectSeq(BoardKeys(board),
              LAMBDA k : k[1] = origin /\ GetFare(board, k[1], k[2], k[3]).taxi = -1)

\* fareBidBoard without the test of the roster: a rogue taxi bids as -1
fareBidBoard_RogueBids(board, taxis, origin, t) ==
    IF DictHas(board, origin) /\ Len(OpenKeys(board, origin)) > 0
    THEN LET k == OpenKeys(board, origin)[1]
             f == GetFare(board, k[1], k[2], k[3])
         IN  SetFare(board, k[1], k[2], k[3],
                     [f EXCEPT !.bidders =
                         Append(@, IF ListHas(taxis, t) THEN ListIndex(taxis, t) ELSE -1)])
    ELSE board

fareBidBoard(board, taxis, origin, t) ==
    IF ListHas(taxis, t) /\ DictHas(board, origin) /\ Len(OpenKeys(board, origin)) > 0
    THEN LET k == OpenKeys(board, origin)[1]
             f == GetFare(board, k[1], k[2], k[3])
         IN  SetFare(board, k[1], k[2], k[3],
                     [f EXCEPT !.bidders = Append(@, ListIndex(taxis, t))])
    ELSE board

fareBid(origin, t) ==
    /\ \E b \in {fareBidBoard(_fareBoard, _taxis, origin, t)} :
          /\ _fareBoard' = b
          /\ NumBids(b) <= MaxBids
    /\ Quiet
    /\ UNCHANGED <<_taxis, _revenue, _taxisServicingFares>>

\* ----------------------------------------------------------- recvPayment
recvPayment(parent, amount) ==
    /\ IF parent = OwnWorld
       THEN /\ _revenue + amount <= MaxRevenue
            /\ _revenue' = _revenue + amount
            /\ _taxisServicingFares' = _taxisServicingFares - 1
       ELSE UNCHANGED <<_revenue, _taxisServicingFares>>
    /\ Quiet
    /\ UNCHANGED <<_taxis, _fareBoard>>

\* ------------------------------------------------------------- _costFare
\* _costFare without the flat fare of a gridlocked world
_costFare_NoFlatFare(fare) ==
    LET timeToDestination == travelTime(getNode(fare.origin), getNode(fare.destination))
    IN  <<(25 + timeToDestination) * 10, 9>>

_costFare(fare) ==
    LET timeToDestination == travelTime(getNode(fare.origin), getNode(fare.destination))
    IN  IF timeToDestination < 0 THEN <<150, 1>>
        ELSE <<(25 + timeToDestination) * 10, 9>>

\* --------------------------------------------------------- _fareUtility1
\* t is the taxi object as the dispatcher sees it, farePayout the fare's price
_fareUtility1(t, origin, destination, farePayout) ==
    LET fareJourneyTime == planPathTime(origin, destination)
        travelToFareTime == planPathTime(t.currentLocation, origin)
    IN  IF fareJourneyTime > -1 /\ travelToFareTime > -1
        THEN RatDiv(farePayout, fareJourneyTime + travelToFareTime)
        ELSE Zero

\* ------------------------------------------ _allocateFareWithUtility_Ret
\* the (utility, origin, destination, taxiIdx) tuples of one fare's bidders;
\* a call of the utility method that raises ends the loop, and its tuple, with
\* ZeroDivisionError for the utility, is the last one
RECURSIVE BidderMatchings(_, _, _, _)
BidderMatchings(fare, taxis, seen, i) ==
    IF i > Len(fare.bidders) THEN <<>>
    ELSE LET taxiIdx == fare.bidders[i]
         IN  IF Len(taxis) > taxiIdx
             THEN LET utility == _fareUtility1(seen[taxiIdx + 1], fare.origin,
                                               fare.destination, fare.price)
                      m == <<utility, fare.origin, fare.destination, taxiIdx>>
                  IN  IF utility = ZeroDivisionError THEN <<m>>
                      ELSE <<m>> \o BidderMatchings(fare, taxis, seen, i + 1)
             ELSE BidderMatchings(fare, taxis, seen, i + 1)

\* the call that built these tuples has raised
Raises(matchings) ==
    Len(matchings) > 0 /\ matchings[Len(matchings)][1] = ZeroDivisionError

_allocateFareWithUtility_Ret(fare, taxis, seen) ==
    IF getNode(fare.origin) # None THEN BidderMatchings(fare, taxis, seen, 1)
    ELSE <<>>

\* ---------------------------------------------------------------- heapq
\* tuples compare as Python compares them: field by field
CoordLess(a, b) == a[1] < b[1] \/ (a[1] = b[1] /\ a[2] < b[2])
\* MatchingBefore with the utility pushed as it is, not negated
MatchingBefore_NotNegated(a, b) ==
    \/ RatLess(a[1], b[1])
    \/ /\ RatEq(a[1], b[1])
       /\ \/ CoordLess(a[2], b[2])
          \/ a[2] = b[2] /\ CoordLess(a[3], b[3])
          \/ a[2] = b[2] /\ a[3] = b[3] /\ a[4] < b[4]

\* the order of the heap entries (-utility, origin, destination, taxiIdx),
\* written on the tuples (utility, origin, destination, taxiIdx)
MatchingBefore(a, b) ==
    \/ RatLess(b[1], a[1])
    \/ /\ RatEq(a[1], b[1])
       /\ \/ CoordLess(a[2], b[2])
          \/ a[2] = b[2] /\ CoordLess(a[3], b[3])
          \/ a[2] = b[2] /\ a[3] = b[3] /\ a[4] < b[4]
\* heappop returns a smallest entry: the index of the first one
HeapTop(heap) ==
    CHOOSE i \in 1..Len(heap) :
        /\ \A j \in 1..Len(heap) : ~MatchingBefore(heap[j], heap[i])
        /\ \A j \in 1..(i - 1) : MatchingBefore(heap[i], heap[j])
RemoveAt(l, i) == SubSeq(l, 1, i - 1) \o SubSeq(l, i + 1, Len(l))

\* ------------------------------------------------------------- clockTick
\* the fares in the order of the tick's loops: origins and destinations in
\* insertion order, call times ascending
TickKeys(board) ==
    LET RECURSIVE times(_, _, _, _)
        times(o, d, ts, i) ==
            IF i > Len(ts) THEN <<>>
            ELSE <<<<o, d, ts[i]>>>> \o times(o, d, ts, i + 1)
        RECURSIVE dests(_, _, _)
        dests(o, ds, i) ==
            IF i > Len(ds) THEN <<>>
            ELSE times(o, ds[i][1], SortSeq(DictKeys(ds[i][2]), LAMBDA a, b : a < b), 1)
                 \o dests(o, ds, i + 1)
        RECURSIVE origins(_)
        origins(i) ==
            IF i > Len(board) THEN <<>>
            ELSE dests(board[i][1], board[i][2], 1) \o origins(i + 1)
    IN  origins(1)

\* Unpriced without the test of the price
Unpriced_Always(fare) == TRUE

\* line 198: the fare has not been priced yet
Unpriced(fare) == fare.price = Zero

\* line 206: a priced fare whose bidders the tick scores
Eligible(fare, taxiCount) ==
    taxiCount > 0 /\ fare.taxi < 0 /\ Len(fare.bidders) > 0

\* ScanFare with `if` for `elif`: a fare just priced is scored as well
ScanFare_MatchesAfterPricing(acc, k, taxis, seen, taxiCount) ==
    LET fare == GetFare(acc.board, k[1], k[2], k[3])
        price == _costFare(fare)
        acc1 == IF Unpriced(fare)
                THEN [acc EXCEPT !.board = SetFare(@, k[1], k[2], k[3],
                                                   [fare EXCEPT !.price = price]),
                                 !.broadcasts = Append(@, <<k[1], k[2], price>>)]
                ELSE acc
        fare1 == GetFare(acc1.board, k[1], k[2], k[3])
    IN  IF Eligible(fare1, taxiCount)
        THEN LET newMatchings == _allocateFareWithUtility_Ret(fare1, taxis, seen)
             IN  IF Raises(newMatchings) THEN [acc1 EXCEPT !.raised = TRUE]
                 ELSE [acc1 EXCEPT !.fareMatchings = @ \o newMatchings,
                                   !.eligible = Append(@, k),
                                   !.fareCount = @ + 1]
        ELSE acc1

\* ScanFare pricing only when a taxi is available
ScanFare_NeedsTaxi(acc, k, taxis, seen, taxiCount) ==
    LET fare == GetFare(acc.board, k[1], k[2], k[3])
    IN  IF Unpriced(fare) /\ taxiCount > 0
        THEN LET price == _costFare(fare)
             IN  [acc EXCEPT !.board = SetFare(@, k[1], k[2], k[3],
                                               [fare EXCEPT !.price = price]),
                             !.broadcasts = Append(@, <<k[1], k[2], price>>)]
        ELSE IF ~Unpriced(fare) /\ Eligible(fare, taxiCount)
        THEN LET newMatchings == _allocateFareWithUtility_Ret(fare, taxis, seen)
             IN  IF Raises(newMatchings) THEN [acc EXCEPT !.raised = TRUE]
                 ELSE [acc EXCEPT !.fareMatchings = @ \o newMatchings,
                                  !.eligible = Append(@, k),
                                  !.fareCount = @ + 1]
        ELSE acc

\* the body of the loops over the fare board, for the fare at key k: an
\* unpriced fare is priced and broadcast, the bidders of an eligible one are
\* scored and pushed; if the scoring raises, nothing of the fare is pushed
ScanFare(acc, k, taxis, seen, taxiCount) ==
    LET fare == GetFare(acc.board, k[1], k[2], k[3])
    IN  IF Unpriced(fare)
        THEN LET price == _costFare(fare)
             IN  [acc EXCEPT !.board = SetFare(@, k[1], k[2], k[3],
                                               [fare EXCEPT !.price = price]),
                             !.broadcasts = Append(@, <<k[1], k[2], price>>)]
        ELSE IF Eligible(fare, taxiCount)
        THEN LET newMatchings == _allocateFareWithUtility_Ret(fare, taxis, seen)
             IN  IF Raises(newMatchings) THEN [acc EXCEPT !.raised = TRUE]
                 ELSE [acc EXCEPT !.fareMatchings = @ \o newMatchings,
                                  !.eligible = Append(@, k),
                                  !.fareCount = @ + 1]
        ELSE acc

RECURSIVE ScanFares(_, _, _, _, _, _)
ScanFares(keys, i, taxis, seen, taxiCount, acc) ==
    IF i > Len(keys) \/ acc.raised THEN acc
    ELSE ScanFares(keys, i + 1, taxis, seen, taxiCount,
                   ScanFare(acc, keys[i], taxis, seen, taxiCount))

\* CanCommit without the test of the taxi
CanCommit_IgnoresTaxi(allocatedTaxis, allocatedFares, m) ==
    ~ListHas(allocatedFares, <<m[2], m[3]>>)

\* line 238: the popped matching is committed if its taxi and its
\* (origin, destination) are both still free
CanCommit(allocatedTaxis, allocatedFares, m) ==
    /\ ~ListHas(allocatedTaxis, m[4])
    /\ ~ListHas(allocatedFares, <<m[2], m[3]>>)

\* DrainDone ending the loop on the first commit
DrainDone_AfterFirst(allocatedTaxis, taxiCount, fareCount) ==
    Len(allocatedTaxis) >= 1

\* DrainDone that never ends the loop
DrainDone_Never(allocatedTaxis, taxiCount, fareCount) == FALSE

\* line 245: the loop ends when every available taxi or every fare of the
\* round has been claimed
DrainDone(allocatedTaxis, taxiCount, fareCount) ==
    Len(allocatedTaxis) = taxiCount \/ Len(allocatedTaxis) = fareCount

\* the body of the matching loop: pop the best matching, commit it or drop it
DrainStep(taxis, taxiCount, fareCount, st) ==
    LET top == HeapTop(st.fareMatchings)
        m == st.fareMatchings[top]
        commit == CanCommit(st.allocatedTaxis, st.allocatedFares, m)
        allocatedTaxis == IF commit THEN Append(st.allocatedTaxis, m[4])
                          ELSE st.allocatedTaxis
    IN  [fareMatchings |-> RemoveAt(st.fareMatchings, top),
         allocatedTaxis |-> allocatedTaxis,
         allocatedFares |-> IF commit THEN Append(st.allocatedFares, <<m[2], m[3]>>)
                            ELSE st.allocatedFares,
         allocations |-> IF commit
                         THEN Append(st.allocations, <<m[2], taxis[m[4] + 1]>>)
                         ELSE st.allocations,
         committed |-> IF commit THEN Append(st.committed, m) ELSE st.committed,
         servicing |-> IF commit THEN st.servicing + 1 ELSE st.servicing,
         taxisToAllocate |-> ~DrainDone(allocatedTaxis, taxiCount, fareCount)]

RECURSIVE DrainLoop(_, _, _, _)
DrainLoop(taxis, taxiCount, fareCount, st) ==
    IF ~(st.taxisToAllocate /\ Len(st.fareMatchings) > 0) THEN st
    ELSE DrainLoop(taxis, taxiCount, fareCount,
                   DrainStep(taxis, taxiCount, fareCount, st))

\* line 190: which taxis of the roster are on duty and idle
Available(seen) == [i \in 1..Len(seen) |-> seen[i].onDuty /\ seen[i].pathLen = 0]
\* sum() of that list
CountTrue(l) == Cardinality({i \in 1..Len(l) : l[i]})

\* the travel times <<fareJourneyTime, travelToFareTime>> that _fareUtility1
\* got for the matchings, in the order of drain.candidates: one call for each
\* bidder on the roster of each scored fare whose origin is a node
RECURSIVE PlannedTimes(_, _, _, _, _)
PlannedTimes(board, taxis, eligible, seen, i) ==
    IF i > Len(eligible) THEN <<>>
    ELSE LET k == eligible[i]
             bidders == SelectSeq(GetFare(board, k[1], k[2], k[3]).bidders,
                                  LAMBDA taxiIdx : Len(taxis) > taxiIdx)
         IN  (IF getNode(k[1]) # None
              THEN [j \in 1..Len(bidders) |->
                       <<planPathTime(k[1], k[2]),
                         planPathTime(seen[bidders[j] + 1].currentLocation, k[1])>>]
              ELSE <<>>)
             \o PlannedTimes(board, taxis, eligible, seen, i + 1)

\* the singleton sets bind the result of the scan and of the drain once
clockTickOwn(seen) ==
    LET available == Available(seen)
        taxiCount == CountTrue(available)
    IN  \E scan \in {ScanFares(TickKeys(_fareBoard), 1, _taxis, seen, taxiCount,
                          [board |-> _fareBoard, broadcasts |-> <<>>,
                           fareMatchings |-> <<>>, eligible |-> <<>>, fareCount |-> 0,
                           raised |-> FALSE])} :
        /\ _fareBoard' = scan.board
        /\ broadcasts' = scan.broadcasts
        /\ cancellations' = <<>>
        /\ raised' = scan.raised
        /\ IF scan.raised
           THEN \* the exception leaves clockTick before the matching loop
                /\ allocations' = <<>>
                /\ drain' = [ran |-> TRUE, available |-> available,
                             taxiCount |-> taxiCount,
                             fareCount |-> scan.fareCount,
                             eligible |-> scan.eligible,
                             candidates |-> scan.fareMatchings,
                             planned |-> PlannedTimes(_fareBoard, _taxis, scan.eligible,
                                                      seen, 1),
                             committed |-> <<>>,
                             allocatedTaxis |-> <<>>,
                             allocatedFares |-> <<>>,
                             left |-> scan.fareMatchings]
                /\ UNCHANGED _taxisServicingFares
           ELSE IF taxiCount = 0
           THEN /\ allocations' = <<>>
                /\ drain' = [NoDrain EXCEPT !.ran = TRUE, !.available = available]
                /\ UNCHANGED _taxisServicingFares
           ELSE \E end \in {DrainLoop(_taxis, taxiCount, scan.fareCount,
                               [fareMatchings |-> scan.fareMatchings,
                                allocatedTaxis |-> <<>>, allocatedFares |-> <<>>,
                                allocations |-> <<>>, committed |-> <<>>,
                                servicing |-> _taxisServicingFares,
                                taxisToAllocate |-> TRUE])} :
                /\ end.servicing <= MaxServicing
                /\ allocations' = end.allocations
                /\ _taxisServicingFares' = end.servicing
                /\ drain' = [ran |-> TRUE, available |-> available,
                             taxiCount |-> taxiCount,
                             fareCount |-> scan.fareCount,
                             eligible |-> scan.eligible,
                             candidates |-> scan.fareMatchings,
                             planned |-> PlannedTimes(_fareBoard, _taxis, scan.eligible,
                                                      seen, 1),
                             committed |-> end.committed,
                             allocatedTaxis |-> end.allocatedTaxis,
                             allocatedFares |-> end.allocatedFares,
                             left |-> end.fareMatchings]
        /\ UNCHANGED <<_taxis, _revenue>>

\* ----------------------------------------------- _allocateFareWithUtility
\* utilities[utility] = taxiIdx keeps the last bidder of each utility;
\* utilities[max(utilities.keys())] is the last bidder of the highest utility
BestBidder(matchings) ==
    matchings[CHOOSE i \in 1..Len(matchings) :
                 /\ \A j \in 1..Len(matchings) : ~RatLess(matchings[i][1], matchings[j][1])
                 /\ \A j \in (i + 1)..Len(matchings) :
                       ~RatEq(matchings[j][1], matchings[i][1])][4]

\* the loop over the bidders is that of _allocateFareWithUtility_Ret; the
\* best bidder becomes the fare's taxi and the world is told
_allocateFareWithUtility(acc, k, taxis, seen) ==
    LET fare == GetFare(acc.board, k[1], k[2], k[3])
        utilities == IF getNode(fare.origin) # None
                     THEN BidderMatchings(fare, taxis, seen, 1)
                     ELSE <<>>
    IN  IF Raises(utilities) THEN [acc EXCEPT !.raised = TRUE]
        ELSE IF Len(utilities) > 0
        THEN LET allocatedTaxi == BestBidder(utilities)
             IN  [acc EXCEPT !.board = SetFare(@, k[1], k[2], k[3],
                                               [fare EXCEPT !.taxi = allocatedTaxi]),
                             !.allocations =
                                 Append(@, <<fare.origin, taxis[allocatedTaxi + 1]>>)]
        ELSE acc

\* ---------------------------------------------------- clockTick_Original
\* the body of its loops for the fare at key k
ScanFare_Original(acc, k, taxis, seen) ==
    LET fare == GetFare(acc.board, k[1], k[2], k[3])
    IN  IF Unpriced(fare)
        THEN LET price == _costFare(fare)
             IN  [acc EXCEPT !.board = SetFare(@, k[1], k[2], k[3],
                                               [fare EXCEPT !.price = price]),
                             !.broadcasts = Append(@, <<k[1], k[2], price>>)]
        ELSE IF fare.taxi < 0 /\ Len(fare.bidders) > 0
        THEN _allocateFareWithUtility(acc, k, taxis, seen)
        ELSE acc

RECURSIVE ScanFares_Original(_, _, _, _, _)
ScanFares_Original(keys, i, taxis, seen, acc) ==
    IF i > Len(keys) \/ acc.raised THEN acc
    ELSE ScanFares_Original(keys, i + 1, taxis, seen,
                            ScanFare_Original(acc, keys[i], taxis, seen))

\* clockTick_Original looks at no more of a taxi than where it is
LocatedStates == {s \in TaxiStates : s.onDuty /\ s.pathLen = 0}

clockTick_Original(parent) ==
    IF parent = OwnWorld
    THEN \E seen \in [1..Len(_taxis) -> LocatedStates] :
         \E scan \in {ScanFares_Original(TickKeys(_fareBoard), 1, _taxis, seen,
                           [board |-> _fareBoard, broadcasts |-> <<>>,
                            allocations |-> <<>>, raised |-> FALSE])} :
            /\ _fareBoard' = scan.board
            /\ broadcasts' = scan.broadcasts
            /\ allocations' = scan.allocations
            /\ cancellations' = <<>>
            /\ raised' = scan.raised
            /\ drain' = NoDrain
            /\ UNCHANGED <<_taxis, _revenue, _taxisServicingFares>>
    ELSE /\ Quiet
         /\ UNCHANGED <<_taxis, _fareBoard, _revenue, _taxisServicingFares>>

\* seen[i] is what the i-th taxi of the roster shows during this tick
clockTick(parent) ==
    IF parent = OwnWorld
    THEN \E seen \in [1..Len(_taxis) -> TaxiStates] : clockTickOwn(seen)
    ELSE /\ Quiet
         /\ UNCHANGED <<_taxis, _fareBoard, _revenue, _taxisServicingFares>>

\* taxi handles are interchangeable: the taxis are named in the order in which
\* the dispatcher comes to know them, so a taxi new to the roster is the next one
KnownOrNext == {t \in TaxiIds : t <= Len(_taxis) + 1}

\* calls that name another world than the dispatcher's own
foreignCall ==
    \/ \E k \in ForeignKeys :
          /\ newFare(OtherWorld, k[1], k[2], k[3])
          /\ caller' = OtherWorld
    \/ \E k \in ForeignKeys, t \in TaxiIds, pr \in HandoverPrices :
          /\ handover(OtherWorld, k[1], k[2], k[3], t, pr)
          /\ caller' = OtherWorld
    \/ \E k \in ForeignKeys :
          /\ cancelFare(OtherWorld, k[1], k[2], k[3])
          /\ caller' = OtherWorld
    \/ \E a \in Amounts :
          /\ recvPayment(OtherWorld, a)
          /\ caller' = OtherWorld
    \/ /\ clockTick(OtherWorld)
       /\ caller' = OtherWorld
    \/ /\ clockTick_Original(OtherWorld)
       /\ caller' = OtherWorld

Next ==
    \/ \E t \in KnownOrNext :
          addTaxi(t) /\ caller' = OwnWorld
    \/ \E k \in FareKeys :
          /\ newFare(OwnWorld, k[1], k[2], k[3])
          /\ caller' = OwnWorld
    \/ \E k \in HandoverKeys, t \in KnownOrNext, pr \in HandoverPrices :
          /\ handover(OwnWorld, k[1], k[2], k[3], t, pr)
          /\ caller' = OwnWorld
    \/ \E k \in FareKeys :
          /\ cancelFare(OwnWorld, k[1], k[2], k[3])
          /\ caller' = OwnWorld
    \/ \E o \in BidOrigins, t \in TaxiIds :
          /\ fareBid(o, t)
          /\ caller' = IF ListHas(_taxis, t) THEN OwnWorld ELSE RogueTaxi
    \/ \E a \in Amounts :
          /\ recvPayment(OwnWorld, a)
          /\ caller' = OwnWorld
    \/ /\ clockTick(OwnWorld)
       /\ caller' = OwnWorld
    \/ /\ clockTick_Original(OwnWorld)
       /\ caller' = OwnWorld
    \/ foreignCall

Spec == Init /\ [][Next]_vars

\* ------------------------------------------------------------ properties
FareAt(board, k) == GetFare(board, k[1], k[2], k[3])
OnBoard(board, k) == HasFare(board, k[1], k[2], k[3])
Pair(k) == <<k[1], k[2]>>
\* a step of vars is a tick of the dispatcher's own world iff it leaves drain.ran set
TickDone == drain.ran

\* C1: within one tick no taxi handle is in two committed allocations and no
\* (origin, destination) pair is allocated twice, whatever the candidates.
C1_NoDoubleAllocation ==
    TickDone =>
        /\ Len(allocations) = Len(drain.committed)
        /\ \A i, j \in 1..Len(allocations) :
              i # j => /\ allocations[i][2] # allocations[j][2]
                       /\ <<drain.committed[i][2], drain.committed[i][3]>>
                             # <<drain.committed[j][2], drain.committed[j][3]>>

\* a tick with two candidates of one taxi for one fare has committed one of them
C1_Witness ==
    /\ TickDone
    /\ Len(drain.candidates) = 2
    /\ drain.candidates[1] = drain.candidates[2]
    /\ Len(allocations) = 1

\* C2: a fare that one tick has allocated and that stays on the board is not
\* scored and not allocated again by the tick that follows.
AllocatedBy(d, k) ==
    /\ d.ran
    /\ ListHas(d.eligible, k)
    /\ ListHas(d.allocatedFares, Pair(k))
    /\ \A j \in SeqSet(d.eligible) : Pair(j) = Pair(k) => j = k
C2_AllocatedOnce ==
    [][\A k \in FareKeys :
          (AllocatedBy(drain, k) /\ OnBoard(_fareBoard, k) /\ drain'.ran)
             => /\ ~ListHas(drain'.eligible, k)
                /\ ~ListHas(drain'.allocatedFares, Pair(k))]_vars

\* C3: a tick that commits (utility, origin, destination, taxi) leaves that
\* taxi's index in the fare's taxi field, has sent one allocateFare for it and
\* has raised the servicing count by one per commit.
C3_CommitMarksFare ==
    [][drain'.ran =>
          /\ Len(allocations') = Len(drain'.committed)
          /\ _taxisServicingFares' = _taxisServicingFares + Len(drain'.committed)
          /\ \A i \in 1..Len(drain'.committed) :
                LET m == drain'.committed[i]
                IN  /\ allocations'[i] = <<m[2], _taxis[m[4] + 1]>>
                    /\ \E k \in SeqSet(drain'.eligible) :
                          /\ Pair(k) = <<m[2], m[3]>>
                          /\ FareAt(_fareBoard', k).taxi = m[4]]_vars

\* the entry at key k is one that newFare or handover has just put there
Registered(board, k) ==
    \/ FareAt(board, k) = FareEntry(k[1], k[2], k[3])
    \/ /\ FareAt(board, k).taxi >= 0
       /\ FareAt(board, k) = [FareEntry(k[1], k[2], k[3])
                                 EXCEPT !.taxi = FareAt(board, k).taxi,
                                        !.price = FareAt(board, k).price]

\* the fares whose price the step from board to board1 has changed from 0 to
\* a nonzero value, handover's own pricing apart
PricedBy(board, board1) ==
    {k \in FareKeySet(board) \cap FareKeySet(board1) :
        /\ FareAt(board, k).price = Zero
        /\ FareAt(board1, k).price # Zero
        /\ ~Registered(board1, k)}

\* C4: no operation changes the price of a priced fare, short of registering
\* the fare anew, and none broadcasts it; the operation that gives a fare its
\* price broadcasts it once, and nothing else is ever broadcast.
C4_PricedOnce ==
    [][/\ \A k \in FareKeySet(_fareBoard) \cap FareKeySet(_fareBoard') :
             FareAt(_fareBoard, k).price # Zero =>
                \/ FareAt(_fareBoard', k).price = FareAt(_fareBoard, k).price
                \/ Registered(_fareBoard', k)
       /\ \A priced \in {PricedBy(_fareBoard, _fareBoard')} :
             /\ \A k \in priced :
                   ListHas(broadcasts', <<k[1], k[2], FareAt(_fareBoard', k).price>>)
             /\ \A od \in {Pair(k) : k \in FareKeys} :
                   Cardinality({i \in 1..Len(broadcasts') :
                                   <<broadcasts'[i][1], broadcasts'[i][2]>> = od})
                     = Cardinality({k \in priced : Pair(k) = od})]_vars

\* a tick has run over a board with a priced fare and has broadcast nothing
C4_Witness ==
    /\ TickDone
    /\ broadcasts = <<>>
    /\ \E k \in FareKeySet(_fareBoard) :
          FareAt(_fareBoard, k).price # Zero /\ FareAt(_fareBoard, k).taxi = -1

\* C5: the first commit of a tick has the highest utility of all candidates of
\* the tick, and the utilities of the commits do not increase; a tick that
\* reaches its matching loop with candidates commits one.
C5_GreedyOrder ==
    TickDone =>
        /\ (Len(drain.candidates) > 0 /\ ~raised) => Len(drain.committed) >= 1
        /\ Len(drain.committed) >= 1 =>
              \A i \in 1..Len(drain.candidates) :
                  ~RatLess(drain.committed[1][1], drain.candidates[i][1])
        /\ \A i, j \in 1..Len(drain.committed) :
              i < j => ~RatLess(drain.committed[i][1], drain.committed[j][1])

\* one fare, two bidders of different utility, one taxi available: the better
\* bidder has the fare, the other has nothing
C5_Witness ==
    /\ TickDone
    /\ drain.taxiCount = 1
    /\ Len(drain.eligible) = 1
    /\ Len(drain.candidates) = 2
    /\ \E i, j \in 1..2 :
          /\ RatLess(drain.candidates[j][1], drain.candidates[i][1])
          /\ drain.candidates[i][4] # drain.candidates[j][4]
          /\ drain.committed = <<drain.candidates[i]>>
          /\ allocations = <<<<drain.candidates[i][2], _taxis[drain.candidates[i][4] + 1]>>>>

\* C6: no tick commits a matching whose taxi has no path to the fare's origin
\* or whose fare has no path from origin to destination.
C6_NoUnreachableTaxi ==
    TickDone =>
        \A i \in 1..Len(drain.candidates) :
            ListHas(drain.committed, drain.candidates[i])
               => drain.planned[i][1] > -1 /\ drain.planned[i][2] > -1

\* C7: cancelFare on a fare that has no taxi removes it, notifies nobody and
\* raises nothing.
C7_CancelUnallocatedSilent ==
    [][\A k \in FareKeys :
          (/\ OnBoard(_fareBoard, k)
           /\ FareAt(_fareBoard, k).taxi = -1
           /\ cancelFare(OwnWorld, k[1], k[2], k[3]))
             => /\ ~OnBoard(_fareBoard', k)
                /\ cancellations' = <<>>
                /\ ~raised']_vars

\* C8: cancelFare on a fare that has a taxi sends one cancelFare(origin, that
\* taxi), removes the fare and leaves every other fare as it was.
C8_CancelAllocated ==
    [][\A k \in FareKeys :
          (/\ OnBoard(_fareBoard, k)
           /\ FareAt(_fareBoard, k).taxi >= 0
           /\ cancelFare(OwnWorld, k[1], k[2], k[3]))
             => /\ cancellations' = <<<<k[1], _taxis[FareAt(_fareBoard, k).taxi + 1]>>>>
                /\ ~raised'
                /\ FareKeySet(_fareBoard') = FareKeySet(_fareBoard) \ {k}
                /\ \A j \in FareKeySet(_fareBoard') :
                      FareAt(_fareBoard', j) = FareAt(_fareBoard, j)]_vars

\* the first taxi of two has been told of a cancellation, which only the
\* cancellation of a fare of that taxi does, and another fare is still there
C8_Witness ==
    /\ Len(_taxis) = 2
    /\ Len(cancellations) = 1
    /\ cancellations[1][2] = _taxis[1]
    /\ NumFares(_fareBoard) = 1

\* C9: cancelFare for a triplet that is not on the board changes nothing,
\* notifies nobody and raises nothing.
C9_CancelUnknownNoOp ==
    [][\A k \in FareKeys :
          (~OnBoard(_fareBoard, k) /\ cancelFare(OwnWorld, k[1], k[2], k[3]))
             => /\ UNCHANGED <<_taxis, _fareBoard, _revenue, _taxisServicingFares>>
                /\ cancellations' = <<>>
                /\ ~raised']_vars

\* a cancellation has just removed one call time of (A, B) and left the other:
\* the removed triplet is unknown under a known origin and destination
C9_Witness ==
    /\ Len(cancellations) = 1
    /\ cancellations[1][1] = NodeA
    /\ FareKeySet(_fareBoard) \in {{<<NodeA, NodeB, 1>>}, {<<NodeA, NodeB, 2>>}}

\* C10: the tick that finds a fare unpriced broadcasts it once with the price
\* it computed, scores none of its bidders and commits no allocation of it.
C10_PricedNotMatched ==
    [][drain'.ran =>
          \A priced \in {PricedBy(_fareBoard, _fareBoard')} :
          \A k \in FareKeySet(_fareBoard) :
              FareAt(_fareBoard, k).price = Zero
                 => /\ k \in priced =>
                          Cardinality({i \in 1..Len(broadcasts') :
                                          broadcasts'[i] = <<k[1], k[2],
                                                             _costFare(FareAt(_fareBoard, k))>>})
                            = Cardinality({j \in priced : Pair(j) = Pair(k)})
                    /\ ~ListHas(drain'.eligible, k)
                    /\ (\A j \in SeqSet(drain'.eligible) : Pair(j) # Pair(k))
                          => /\ \A c \in SeqSet(drain'.candidates) : <<c[2], c[3]>> # Pair(k)
                             /\ ~ListHas(drain'.allocatedFares, Pair(k))]_vars

\* a tick with a taxi available has just broadcast the only fare of its origin
\* and destination, which has a bidder, and has committed nothing for it
C10_Witness ==
    /\ TickDone
    /\ drain.taxiCount > 0
    /\ \E k \in FareKeySet(_fareBoard) :
          /\ \A j \in FareKeySet(_fareBoard) : Pair(j) = Pair(k) => j = k
          /\ Len(FareAt(_fareBoard, k).bidders) > 0
          /\ ListHas(broadcasts, <<k[1], k[2], FareAt(_fareBoard, k).price>>)
          /\ ~ListHas(drain.allocatedFares, Pair(k))

\* C11: the price an operation computes for a fare, stores and broadcasts is
\* 150 when the map's travel time T from origin to destination is negative and
\* otherwise the p with 9 * p = 10 * (25 + T); it is never 0.
C11_PriceFormula ==
    [][/\ \A k \in PricedBy(_fareBoard, _fareBoard') :
             LET T == travelTime(getNode(k[1]), getNode(k[2]))
                 p == FareAt(_fareBoard', k).price
             IN  /\ T < 0 => p = <<150, 1>>
                 /\ T >= 0 => 9 * p[1] = 10 * (25 + T) * p[2]
                 /\ p[1] # 0
                 /\ ListHas(broadcasts', <<k[1], k[2], p>>)
       /\ \A i \in 1..Len(broadcasts') :
             LET T == travelTime(getNode(broadcasts'[i][1]), getNode(broadcasts'[i][2]))
                 p == broadcasts'[i][3]
             IN  /\ T < 0 => p = <<150, 1>>
                 /\ T >= 0 => 9 * p[1] = 10 * (25 + T) * p[2]
                 /\ p[1] # 0]_vars

\* one tick has broadcast a fare of the gridlocked pair A -> C at 150 and a
\* fare of A -> B, four ticks away, at 290/9
C11_Witness ==
    /\ TickDone
    /\ ListHas(broadcasts, <<NodeA, NodeC, <<150, 1>>>>)
    /\ \E i \in 1..Len(broadcasts) :
          /\ broadcasts[i][1] = NodeA /\ broadcasts[i][2] = NodeB
          /\ 9 * broadcasts[i][3][1] = 290 * broadcasts[i][3][2]
    /\ \A k \in FareKeySet(_fareBoard) : FareAt(_fareBoard, k).price # Zero

\* C12: newFare, cancelFare, recvPayment and clockTick (and handover) called
\* with another world than the dispatcher's own leave roster, fare board,
\* revenue and servicing count as they were, call nothing on the world and
\* raise nothing.
C12_ForeignWorldNoOp ==
    [][(\/ \E k \in ForeignKeys : newFare(OtherWorld, k[1], k[2], k[3])
        \/ \E k \in ForeignKeys : cancelFare(OtherWorld, k[1], k[2], k[3])
        \/ \E a \in Amounts : recvPayment(OtherWorld, a)
        \/ clockTick(OtherWorld)
        \/ caller' = OtherWorld)
          => /\ UNCHANGED <<_taxis, _fareBoard, _revenue, _taxisServicingFares>>
             /\ broadcasts' = <<>>
             /\ allocations' = <<>>
             /\ cancellations' = <<>>
             /\ ~raised']_vars

\* the last call came from another world; the board holds the fare such calls
\* name, unpriced and with a bidder, the roster is not empty and a payment is due
C12_Witness ==
    /\ caller = OtherWorld
    /\ \E k \in ForeignKeys :
          /\ OnBoard(_fareBoard, k)
          /\ FareAt(_fareBoard, k).price = Zero
          /\ Len(FareAt(_fareBoard, k).bidders) > 0
    /\ Len(_taxis) > 0
    /\ _taxisServicingFares > 0

\* C13: fareBid by a taxi that is not on the roster changes no bidder list and
\* nothing else, calls nothing and raises nothing.
C13_RogueBidIgnored ==
    [][\A o \in BidOrigins, t \in TaxiIds :
          (~ListHas(_taxis, t) /\ fareBid(o, t))
             => /\ UNCHANGED <<_taxis, _fareBoard, _revenue, _taxisServicingFares>>
                /\ broadcasts' = <<>>
                /\ allocations' = <<>>
                /\ cancellations' = <<>>
                /\ ~raised']_vars

\* a taxi off the roster has just bid; every origin taxis bid on has a fare
\* without a taxi, and the roster has a taxi
C13_Witness ==
    /\ caller = RogueTaxi
    /\ Len(_taxis) = 1
    /\ \A o \in BidOrigins : DictHas(_fareBoard, o) /\ Len(OpenKeys(_fareBoard, o)) > 0

\* C14: fareBid(origin, taxi) by a taxi of the roster appends the taxi's index
\* to the bidders of the first fare under origin that has no taxi and changes
\* no other fare; a fare with a taxi gains no bidder; with no such fare under
\* origin nothing changes.
C14_BidOnFirstOpenFare ==
    [][\A o \in BidOrigins, t \in TaxiIds :
          (/\ ListHas(_taxis, t)
           /\ ~drain'.ran /\ cancellations' = <<>> /\ ~raised'
           /\ Len(_fareBoard') = Len(_fareBoard)
           /\ UNCHANGED <<_taxis, _revenue>>
           /\ fareBid(o, t)) =>
             \A keys \in {FareKeySet(_fareBoard)} :
             \A changed \in {{k \in keys : FareAt(_fareBoard', k) # FareAt(_fareBoard, k)}},
                open \in {{k \in keys : k[1] = o /\ FareAt(_fareBoard, k).taxi = -1}} :
                 /\ BoardKeys(_fareBoard') = BoardKeys(_fareBoard)
                 /\ UNCHANGED <<_taxis, _revenue, _taxisServicingFares>>
                 /\ Cardinality(changed) = IF open = {} THEN 0 ELSE 1
                 /\ open = {} => _fareBoard' = _fareBoard
                 /\ \A k \in changed :
                       /\ k = OpenKeys(_fareBoard, o)[1]
                       /\ FareAt(_fareBoard, k).taxi = -1
                       /\ FareAt(_fareBoard', k) =
                             [FareAt(_fareBoard, k) EXCEPT
                                 !.bidders = Append(@, ListIndex(_taxis, t))]]_vars

\* two fares without a taxi under one origin: the first has the bids of both
\* taxis, the second has none
C14_Witness ==
    \E o \in BidOrigins :
        /\ Len(OpenKeys(_fareBoard, o)) = 2
        /\ FareAt(_fareBoard, OpenKeys(_fareBoard, o)[1]).bidders = <<0, 1>>
        /\ FareAt(_fareBoard, OpenKeys(_fareBoard, o)[2]).bidders = <<>>

\* C15: a tick that finds no taxi on duty and idle commits no allocation and
\* leaves the servicing count, and still prices and broadcasts every fare it
\* finds unpriced.
C15_NoTaxiStillPrices ==
    [][(drain'.ran /\ CountTrue(drain'.available) = 0) =>
          /\ allocations' = <<>>
          /\ drain'.committed = <<>>
          /\ UNCHANGED _taxisServicingFares
          /\ \A k \in FareKeySet(_fareBoard) :
                FareAt(_fareBoard, k).price = Zero =>
                   /\ FareAt(_fareBoard', k).price # Zero
                   /\ ListHas(broadcasts', <<k[1], k[2], FareAt(_fareBoard', k).price>>)]_vars

\* a tick with a roster of which no taxi was available has broadcast a fare and
\* has left a priced fare with a bidder unallocated
C15_Witness ==
    /\ TickDone
    /\ Len(_taxis) > 0
    /\ CountTrue(drain.available) = 0
    /\ Len(broadcasts) = 1
    /\ allocations = <<>>
    /\ \E k \in FareKeySet(_fareBoard) :
          /\ FareAt(_fareBoard, k).taxi = -1
          /\ Len(FareAt(_fareBoard, k).bidders) > 0
          /\ ~ListHas(broadcasts, <<k[1], k[2], FareAt(_fareBoard, k).price>>)

\* C16: in every state a fare that has no price yet has no bidders.
C16_NoBidBeforePrice ==
    \A k \in FareKeySet(_fareBoard) :
        FareAt(_fareBoard, k).price = Zero => FareAt(_fareBoard, k).bidders = <<>>

\* C17: a tick commits at most min(taxis available, fares eligible)
\* allocations, and its loop has popped nothing after the commit that claimed
\* the last available taxi or the last fare of the round; the loop leaves
\* candidates on the heap only then.
C17_CommitsBounded ==
    TickDone =>
        LET n == Len(drain.committed)
            popped == Len(drain.candidates) - Len(drain.left)
            full == n = drain.taxiCount \/ n = drain.fareCount
        IN  /\ n <= CountTrue(drain.available)
            /\ n <= Len(drain.eligible)
            /\ (~raised /\ drain.left # <<>>) => full
            /\ (full /\ n > 0) =>
                  Cardinality({i \in 1..Len(drain.candidates) :
                                  ~MatchingBefore(drain.committed[n], drain.candidates[i])})
                     >= popped

\* one taxi available, two fares with one bidder each: the loop has ended on
\* its first commit and has left the other candidate on the heap
C17_Witness ==
    /\ TickDone
    /\ drain.taxiCount = 1
    /\ Len(drain.eligible) = 2
    /\ Len(drain.candidates) = 2
    /\ drain.candidates[1][4] # drain.candidates[2][4]
    /\ Len(drain.committed) = 1
    /\ Len(drain.left) = 1

\* C18: a tick of the dispatcher's world leaves no fare of the board without a
\* price: every fare it finds unpriced is still on the board, priced and
\* broadcast, whatever its bidders, the taxis available and the other fares.
C18_PricedByFirstTick ==
    [][drain'.ran =>
          /\ BoardKeys(_fareBoard') = BoardKeys(_fareBoard)
          /\ \A k \in FareKeySet(_fareBoard') :
                /\ FareAt(_fareBoard', k).price # Zero
                /\ FareAt(_fareBoard, k).price = Zero
                      => \E i \in 1..Len(broadcasts') :
                            /\ broadcasts'[i][1] = k[1]
                            /\ broadcasts'[i][2] = k[2]
                            /\ broadcasts'[i][3] = FareAt(_fareBoard', k).price]_vars

\* C19: newFare(origin, destination, time) from the dispatcher's world leaves
\* at that key an entry with price 0, no bidders and no taxi, whatever was
\* there; every other fare is as it was and the world is not called.
C19_NewFareOverwrites ==
    [][\A k \in FareKeys :
          (~drain'.ran /\ newFare(OwnWorld, k[1], k[2], k[3])) =>
             /\ FareKeySet(_fareBoard') = FareKeySet(_fareBoard) \cup {k}
             /\ FareAt(_fareBoard', k).price = Zero
             /\ FareAt(_fareBoard', k).bidders = <<>>
             /\ FareAt(_fareBoard', k).taxi = -1
             /\ \A j \in FareKeySet(_fareBoard) \ {k} :
                   FareAt(_fareBoard', j) = FareAt(_fareBoard, j)
             /\ broadcasts' = <<>>
             /\ allocations' = <<>>
             /\ cancellations' = <<>>
             /\ ~raised'
             /\ UNCHANGED <<_taxis, _revenue, _taxisServicingFares>>]_vars

\* under (A, B) call time 1 was registered before call time 2, call time 2 has
\* a price, which only a tick gives it and which that tick gave call time 1 as
\* well, and call time 1 has none: it has been registered anew over a priced
\* entry
C19_Witness ==
    /\ DictHas(_fareBoard, NodeA)
    /\ DictHas(DictGet(_fareBoard, NodeA), NodeB)
    /\ DictKeys(DictGet(DictGet(_fareBoard, NodeA), NodeB)) = <<1, 2>>
    /\ FareAt(_fareBoard, <<NodeA, NodeB, 1>>) = FareEntry(NodeA, NodeB, 1)
    /\ FareAt(_fareBoard, <<NodeA, NodeB, 2>>).price # Zero
    /\ drain = NoDrain
    /\ cancellations = <<>>

\* C20: in every state each origin of the board has a destination and each
\* destination has a call time.
C20_NoEmptyLevel ==
    \A i \in 1..Len(_fareBoard) :
        /\ Len(_fareBoard[i][2]) > 0
        /\ \A j \in 1..Len(_fareBoard[i][2]) : Len(_fareBoard[i][2][j][2]) > 0

\* a cancellation has just removed the only fare of A -> B; A is still an
\* origin of the board, with its other destination C only
C20_Witness ==
    /\ Len(cancellations) = 1
    /\ cancellations[1][1] = NodeA
    /\ DictHas(_fareBoard, NodeA)
    /\ DictKeys(DictGet(_fareBoard, NodeA)) = <<NodeC>>

\* C21: every matching a tick commits names a taxi that was on duty and idle
\* when the tick began.
C21_OnlyAvailableAllocated ==
    TickDone =>
        \A i \in 1..Len(drain.committed) :
            drain.available[drain.committed[i][4] + 1]

\* C22: in every state the servicing count is at least 0 and at most the
\* number of taxis on the roster.
C22_ServicingInRange ==
    /\ _taxisServicingFares >= 0
    /\ _taxisServicingFares <= Len(_taxis)

\* C23: when the loop of a tick has ended, either it has committed as many
\* matchings as taxis were available or every candidate of the tick has its
\* taxi or its (origin, destination) claimed; it has popped each candidate at
\* most once.
C23_DrainMaximal ==
    (TickDone /\ drain.taxiCount > 0 /\ ~raised) =>
        /\ \/ Len(drain.committed) = drain.taxiCount
           \/ \A i \in 1..Len(drain.candidates) :
                 \/ ListHas(drain.allocatedTaxis, drain.candidates[i][4])
                 \/ ListHas(drain.allocatedFares,
                            <<drain.candidates[i][2], drain.candidates[i][3]>>)
        /\ Len(drain.left) <= Len(drain.candidates)
        /\ Len(drain.committed) <= Len(drain.candidates) - Len(drain.left)
        /\ \A c \in SeqSet(drain.candidates) :
              Cardinality({i \in 1..Len(drain.left) : drain.left[i] = c})
                 <= Cardinality({i \in 1..Len(drain.candidates) : drain.candidates[i] = c})

\* two taxis available, one fare with the bids of both: the loop has ended on
\* its first commit, short of the taxis available, and the candidate left on
\* the heap is one of the claimed fare
C23_Witness ==
    /\ TickDone
    /\ drain.taxiCount = 2
    /\ Len(drain.eligible) = 1
    /\ Len(drain.candidates) = 2
    /\ drain.candidates[1][4] # drain.candidates[2][4]
    /\ Len(drain.committed) = 1
    /\ Len(drain.left) = 1
    /\ ~ListHas(drain.allocatedTaxis, drain.left[1][4])
====
